---- MODULE Spec2Model ----
(***************************************************************************)
(* A model of apd-sim: the exposure time calculator (src/apdsim/etc.py)    *)
(* and the observation simulator (src/obssim.py).                          *)
(*                                                                         *)
(* Numbers.  The program computes in floating point; the model computes in *)
(* fixed point over the integers:                                          *)
(*   - magnitudes are in tenths of a magnitude (19 mag = 190);             *)
(*   - electron rates and counts are whole numbers of a scaled unit;       *)
(*   - square roots and the SNR are in hundredths, rounded down;           *)
(*   - medians are doubled (a median of an even number of frames is a     *)
(*     half-integer).                                                      *)
(* A floating-point result that is not a number is kept as a class:        *)
(* "finite", "nan" or "inf".                                               *)
(***************************************************************************)
EXTENDS Integers, Sequences, FiniteSets, TLC

VARIABLES
    cfg,          \* the instrument configuration and the module globals
    etc_output,   \* what exposureTimeCalc returned, when it was the last call
    flux_out,     \* what getPhotonFlux returned, when it was the last call
    rng,          \* the shared random source (np.random)
    nf_out,       \* what the last noise_frames_from_etc call returned
    master_out,   \* what the last dark_sky_master_frames call returned
    draws,        \* history: the stream positions consumed, by purpose
    tt_out,       \* what the last add_tt call returned
    dl_out,       \* what the last get_diffraction_limited_image call did
    airy_out,     \* what the last airy_disc call returned
    psf_out,      \* the last psf_airy_disk_kernel call: where it stands or ended
    conv_out,     \* what the last convolve_psf call returned
    star_out      \* what the last field_star call returned

\* the variables of the calculator, the frame generators and the image steps
simVars == <<cfg, etc_output, flux_out, rng, nf_out, master_out, draws, tt_out, dl_out>>

\* the variables of the PSF and convolution functions
psfVars == <<airy_out, psf_out, conv_out, star_out>>

vars == <<simVars, psfVars>>

(***************************************************************************)
(* Bounds and input sets                                                   *)
(***************************************************************************)
MaxTExp == 2          \* exposure times 0 .. MaxTExp
CryoGridLen == 4      \* points of the cryostat temperature grid
MaxFrames == 3        \* frame counts 1 .. MaxFrames
MaxCalls == 2         \* calls on the random source in one run
MaxFRatio == 3        \* focal ratios 1 .. MaxFRatio

Bands == {"J", "H", "K"}
MagnitudeSystems == {"AB", "Vega", "ST"}
SurfaceBrightnesses == {190, 215}

(***************************************************************************)
(* Arithmetic helpers                                                      *)
(***************************************************************************)
RECURSIVE Pow(_, _)
Pow(b, e) == IF e = 0 THEN 1 ELSE b * Pow(b, e - 1)

Min(a, b) == IF a <= b THEN a ELSE b

Abs(a) == IF a < 0 THEN -a ELSE a

RECURSIVE SqrtSearch(_, _, _)
\* the largest r in lo .. hi with r * r <= n (lo * lo <= n)
SqrtSearch(n, lo, hi) ==
    IF lo >= hi THEN lo
    ELSE LET mid == (lo + hi + 1) \div 2
         IN IF mid * mid <= n THEN SqrtSearch(n, mid, hi)
            ELSE SqrtSearch(n, lo, mid - 1)

\* floor(sqrt(n))
ISqrt(n) == SqrtSearch(n, 0, Min(n, 46340))

\* np.sqrt(n), in hundredths
SqrtCenti(n) == ISqrt(n * 10000)

\* a / np.sqrt(b) on numpy floats: no exception, a warning at most
DivBySqrt(a, b) ==
    IF b = 0
    THEN [cls |-> IF a = 0 THEN "nan" ELSE "inf", centi |-> 0]
    ELSE [cls |-> "finite", centi |-> ISqrt((a * a * 10000) \div b)]

(***************************************************************************)
(* src/apdsim/etc.py                                                       *)
(***************************************************************************)

\* 1000 * 10^(-r/25), r = 0 .. 24: one tenth of a magnitude is 1/25 decade
Mantissa ==
    <<1000, 912, 832, 759, 692, 631, 575, 525, 479, 437, 398, 363, 331,
      302, 275, 251, 229, 209, 191, 174, 158, 145, 132, 120, 110>>

\* np.power(10, -(zp + m) / 2.5), scaled by 10^30; zp and m in tenths of a mag
F_nu_cgs(zp, m) ==
    LET x == zp + m
        q == x \div 25
        r == x % 25
    IN IF q <= 27 THEN Mantissa[r + 1] * Pow(10, 27 - q)
       ELSE Mantissa[r + 1] \div Pow(10, q - 27)

AB_ZeroPoint == 486

Vega_magnitudes == [J |-> 495, H |-> 500, K |-> 505]

\* The zero point getPhotonFlux uses, or the exception it ends with.
\* Its Vega branch reads a name `band` that is no parameter of it: a
\* module global of that name (cfg.global_band) or a NameError.
ZeroPoint(magnitudeSystem) ==
    IF magnitudeSystem = "AB" THEN [status |-> "ok", zp |-> AB_ZeroPoint]
    ELSE IF magnitudeSystem = "Vega"
         THEN IF cfg.global_band \in Bands
              THEN [status |-> "ok", zp |-> Vega_magnitudes[cfg.global_band]]
              ELSE [status |-> "NameError", zp |-> 0]
         ELSE [status |-> "UnboundLocalError", zp |-> 0]

\* band_factor stands for c / wavelength_eff^2 * 1e-7 * 1e4 * bandwidth
\* / E_photon * plate_scale_as^2 * A_tel, qe_gain for qe * gain_av.
getPhotonFlux(surfaceBrightness, band_factor, tau, qe_gain, magnitudeSystem) ==
    LET z == ZeroPoint(magnitudeSystem)
    IN IF z.status # "ok" THEN [status |-> z.status, value |-> 0]
       ELSE [status |-> "ok",
             value |-> (F_nu_cgs(z.zp, surfaceBrightness) * band_factor
                        * tau * qe_gain) \div 100]

\* thermalEmissionIntensity over the temperature grid, lowest temperature
\* first: it grows with the temperature
I_cryo(k) == cfg.cryo_emission * (k - 1) * (k - 1)

RECURSIVE CryoCrossingLast(_, _, _)
RECURSIVE CryoCrossing(_, _, _)
CryoCrossingLast(k, minVal, idx) ==
    IF k > CryoGridLen THEN idx
    ELSE LET d == Abs(I_cryo(k) - cfg.dark_current)
         IN IF minVal = -1 \/ d <= minVal
            THEN CryoCrossingLast(k + 1, d, k)
            ELSE CryoCrossingLast(k + 1, minVal, idx)

\* the loop of getCryostatTE from grid point k on: idx is replaced only by a
\* strictly smaller distance to the dark current
CryoCrossing(k, minVal, idx) ==
    IF k > CryoGridLen THEN idx
    ELSE LET d == Abs(I_cryo(k) - cfg.dark_current)
         IN IF minVal = -1 \/ d < minVal
            THEN CryoCrossing(k + 1, d, k)
            ELSE CryoCrossing(k + 1, minVal, idx)

getCryostatTE == I_cryo(CryoCrossing(1, -1, 0))

\* I_mirrors stands for I_M1 + I_M2 + I_M3, qe_gain for gain_av * qe
getTelescopeTE(worstCaseSpider) ==
    [b \in Bands |->
        cfg.qe_gain * cfg.Tr_win
            * (cfg.I_mirrors[b]
               + (IF worstCaseSpider THEN cfg.I_spider_worst[b]
                  ELSE cfg.I_spider_best[b]))
        + cfg.qe_gain * cfg.I_window[b]]

getSkyTE == [b \in Bands |-> cfg.qe_gain * cfg.tau * cfg.Tr_win * cfg.I_sky[b]]

SkyVariantWrong(band, Sigma_sky_thermal, Sigma_tel, Sigma_sky_emp) ==
    IF band = "K" THEN Sigma_sky_emp ELSE Sigma_sky_thermal + Sigma_tel

\* the total sky background
TotalSky(band, Sigma_sky_thermal, Sigma_tel, Sigma_sky_emp) ==
    IF band = "K" THEN Sigma_sky_thermal + Sigma_tel ELSE Sigma_sky_emp

\* the magnitude system exposureTimeCalc hands to getPhotonFlux for the source
SourceSystem(magnitudeSystem) == "AB"

SNRNoReadNoise(N_source, N_dark, N_cryo, N_sky, N_RN) ==
    DivBySqrt(N_source, N_source + N_dark + N_cryo + N_sky)

SNRof(N_source, N_dark, N_cryo, N_sky, N_RN) ==
    DivBySqrt(N_source, N_source + N_dark + N_cryo + N_sky + N_RN)

exposureTimeCalc(band, t_exp, surfaceBrightness, magnitudeSystem, worstCaseSpider) ==
    LET Sigma_source_e ==
            getPhotonFlux(surfaceBrightness, cfg.band_factor[band],
                          cfg.tau * cfg.Tr_win, cfg.qe_gain,
                          SourceSystem(magnitudeSystem)).value
        Sigma_cryo == getCryostatTE
        Sigma_tel == getTelescopeTE(worstCaseSpider)[band]
        Sigma_sky_thermal == getSkyTE[band]
        Sigma_sky_emp ==
            getPhotonFlux(cfg.sky_brightness[band], cfg.band_factor[band],
                          cfg.tau * cfg.Tr_win, cfg.qe_gain, "AB").value
        Sigma_sky == TotalSky(band, Sigma_sky_thermal, Sigma_tel, Sigma_sky_emp)
        Sigma_dark == cfg.dark_current
        N_source == Sigma_source_e * t_exp
        N_dark == Sigma_dark * t_exp
        N_cryo == Sigma_cryo * t_exp
        N_sky == Sigma_sky * t_exp
        N_tel == Sigma_tel * t_exp
        N_sky_emp == Sigma_sky_emp * t_exp
        N_sky_thermal == Sigma_sky_thermal * t_exp
        N_RN == cfg.read_noise * cfg.read_noise
    IN [status |-> "ok", t_exp |-> t_exp, band |-> band,
        surfaceBrightness |-> surfaceBrightness,
        magnitudeSystem |-> magnitudeSystem,
        sigma_source |-> SqrtCenti(N_source),
        sigma_dark |-> SqrtCenti(N_dark),
        sigma_cryo |-> SqrtCenti(N_cryo),
        sigma_sky |-> SqrtCenti(N_sky),
        sigma_sky_emp |-> SqrtCenti(N_sky_emp),
        sigma_tel |-> SqrtCenti(N_tel),
        sigma_sky_thermal |-> SqrtCenti(N_sky_thermal),
        sigma_RN |-> cfg.read_noise * 100,
        N_source |-> N_source, N_dark |-> N_dark, N_cryo |-> N_cryo,
        N_sky_emp |-> N_sky_emp, N_sky_thermal |-> N_sky_thermal,
        N_sky |-> N_sky, N_tel |-> N_tel, N_RN |-> N_RN,
        SNR |-> SNRof(N_source, N_dark, N_cryo, N_sky, N_RN)]

(***************************************************************************)
(* src/obssim.py: arrays                                                   *)
(***************************************************************************)

\* An ndarray is [shape, data]: data maps each index tuple (0-based) to the
\* element there.
Indices(shape) ==
    IF Len(shape) = 1 THEN { <<i>> : i \in 0 .. shape[1] - 1 }
    ELSE IF Len(shape) = 2
         THEN { <<i, j>> : i \in 0 .. shape[1] - 1, j \in 0 .. shape[2] - 1 }
         ELSE { <<k, i, j>> : k \in 0 .. shape[1] - 1, i \in 0 .. shape[2] - 1,
                              j \in 0 .. shape[3] - 1 }

\* the number of elements
Size(shape) ==
    IF Len(shape) = 1 THEN shape[1]
    ELSE IF Len(shape) = 2 THEN shape[1] * shape[2]
         ELSE shape[1] * shape[2] * shape[3]

\* the place of an element in row-major order
Flat(shape, idx) ==
    IF Len(shape) = 1 THEN idx[1]
    ELSE IF Len(shape) = 2 THEN idx[1] * shape[2] + idx[2]
         ELSE (idx[1] * shape[2] + idx[2]) * shape[3] + idx[3]

EmptyArray == [shape |-> <<0>>, data |-> [idx \in Indices(<<0>>) |-> 0]]

ArrAdd(a, b) == [shape |-> a.shape, data |-> [idx \in DOMAIN a.data |-> a.data[idx] + b.data[idx]]]

ArrSub(a, b) == [shape |-> a.shape, data |-> [idx \in DOMAIN a.data |-> a.data[idx] - b.data[idx]]]

ArrMul(a, g) == [shape |-> a.shape, data |-> [idx \in DOMAIN a.data |-> a.data[idx] * g]]

\* a / g under `from __future__ import division`: the quotient, exact where
\* g divides the element, else the element's floor with the remainder lost
ArrDiv(a, g) == [shape |-> a.shape, data |-> [idx \in DOMAIN a.data |-> a.data[idx] \div g]]

(***************************************************************************)
(* src/obssim.py: the random source                                        *)
(***************************************************************************)

\* The p-th value of the generator's stream for a seed: a fixed function of
\* the seed and the position, as for any seeded generator.
Stream(seed, p) == (seed + 3 * p * p + 5 * p + (p \div 3)) % 7

\* np.random.poisson(lam) from one stream value: a natural number, 0 when
\* lam = 0
Poisson(lam, u) == IF lam = 0 THEN 0 ELSE u % (2 * lam + 1)

\* np.random.randn() from one stream value, in whole pixels
Randn(u) == (u % 3) - 1

noise_frames_cached(height_px, width_px, lam, N_frames, r) ==
    LET shape == IF N_frames = 1 THEN <<height_px, width_px>>
                 ELSE <<N_frames, height_px, width_px>>
    IN [frames |-> [shape |-> shape,
                    data |-> [idx \in Indices(shape) |->
                                 Poisson(lam, Stream(r.seed, r.pos + Flat(shape, idx)))]],
        used |-> r.pos .. (r.pos + Size(shape) - 1),
        rng |-> r]

\* noise_frames on the random source r: the frames, the stream positions
\* they were drawn at, and the random source after the call
noise_frames(height_px, width_px, lam, N_frames, r) ==
    LET shape == IF N_frames = 1 THEN <<height_px, width_px>>
                 ELSE <<N_frames, height_px, width_px>>
    IN [frames |-> [shape |-> shape,
                    data |-> [idx \in Indices(shape) |->
                                 Poisson(lam, Stream(r.seed, r.pos + Flat(shape, idx)))]],
        used |-> r.pos .. (r.pos + Size(shape) - 1),
        rng |-> [r EXCEPT !.pos = @ + Size(shape)]]

(***************************************************************************)
(* src/obssim.py: noise frames and master frames                           *)
(***************************************************************************)

NoiseFramesDictGainedRN(sky, dark, cryo, RN, gain) ==
    LET gsky == ArrMul(sky, gain)
        gdark == ArrMul(dark, gain)
        gcryo == ArrMul(cryo, gain)
        gRN == ArrMul(RN, gain)
        gm == ArrAdd(ArrAdd(gsky, gcryo), gdark)
    IN [sky |-> gsky, dark |-> gdark, cryo |-> gcryo, RN |-> gRN,
        total |-> ArrAdd(ArrAdd(ArrAdd(gsky, gcryo), gRN), gdark),
        gain_multiplied |-> gm,
        unity_gain |-> ArrDiv(gm, gain),
        post_gain |-> gRN]

\* noise_frames_dict from the four unity-gain draws; the keys
\* 'gain-multiplied', 'unity gain' and 'post-gain' are written with _
NoiseFramesDict(sky, dark, cryo, RN, gain) ==
    LET gsky == ArrMul(sky, gain)
        gdark == ArrMul(dark, gain)
        gcryo == ArrMul(cryo, gain)
        gm == ArrAdd(ArrAdd(gsky, gcryo), gdark)
    IN [sky |-> gsky, dark |-> gdark, cryo |-> gcryo, RN |-> RN,
        total |-> ArrAdd(ArrAdd(ArrAdd(gsky, gcryo), RN), gdark),
        gain_multiplied |-> gm,
        unity_gain |-> ArrDiv(gm, gain),
        post_gain |-> RN]

EmptyDict ==
    [sky |-> EmptyArray, dark |-> EmptyArray, cryo |-> EmptyArray,
     RN |-> EmptyArray, total |-> EmptyArray, gain_multiplied |-> EmptyArray,
     unity_gain |-> EmptyArray, post_gain |-> EmptyArray]

\* etc_input = None
NoneEtc == [kind |-> "None", N_sky |-> 0, N_dark |-> 0, N_cryo |-> 0, N_RN |-> 0]

\* ETC outputs: the counts under the key 'unity gain'
EtcInputs ==
    { [kind |-> "dict", N_sky |-> 2, N_dark |-> 1, N_cryo |-> 0, N_RN |-> 1],
      [kind |-> "dict", N_sky |-> 1, N_dark |-> 2, N_cryo |-> 1, N_RN |-> 2] }

\* The ETC output noise_frames_from_etc works with, or the exception before
\* it has one.  generated is what etc.exposure_time_calc returns when called.
EtcOutputFor(band, t_exp, etc_input, generated) ==
    IF etc_input.kind # "None" THEN [status |-> "ok", etc_output |-> etc_input]
    ELSE IF cfg.optical_system = "undefined"
         THEN [status |-> "NameError", etc_output |-> NoneEtc]
    ELSE IF cfg.optical_system = "None"
         THEN [status |-> "UserWarning", etc_output |-> NoneEtc]
    ELSE IF t_exp # "None" /\ band # "None"
         THEN [status |-> "ok", etc_output |-> generated]
         ELSE [status |-> "UserWarning", etc_output |-> NoneEtc]

noise_frames_from_etc_drawing_first(N, height_px, width_px, gain, band, t_exp, etc_input, generated, r) ==
    LET e == EtcOutputFor(band, t_exp, etc_input, generated)
        sky == noise_frames(height_px, width_px, e.etc_output.N_sky, N, r)
        dark == noise_frames(height_px, width_px, e.etc_output.N_dark, N, sky.rng)
        cryo == noise_frames(height_px, width_px, e.etc_output.N_cryo, N, dark.rng)
        RN == noise_frames(height_px, width_px, e.etc_output.N_RN, N, cryo.rng)
    IN IF e.status # "ok"
       THEN [status |-> e.status, noise_frames_dict |-> EmptyDict,
             etc_output |-> NoneEtc, rng |-> sky.rng, used |-> sky.used,
             reused |-> FALSE]
       ELSE [status |-> "ok",
             noise_frames_dict |->
                 NoiseFramesDict(sky.frames, dark.frames, cryo.frames,
                                 RN.frames, gain),
             etc_output |-> e.etc_output,
             rng |-> RN.rng,
             used |-> sky.used \cup dark.used \cup cryo.used \cup RN.used,
             reused |-> \/ sky.used \cap dark.used # {}
                        \/ (sky.used \cup dark.used) \cap cryo.used # {}
                        \/ (sky.used \cup dark.used \cup cryo.used) \cap RN.used # {}]

\* noise_frames_from_etc on the random source r: status, the dictionary and
\* the ETC output returned, the random source after the call, and (history)
\* the stream positions drawn and whether one was drawn twice
noise_frames_from_etc(N, height_px, width_px, gain, band, t_exp, etc_input, generated, r) ==
    LET e == EtcOutputFor(band, t_exp, etc_input, generated)
        sky == noise_frames(height_px, width_px, e.etc_output.N_sky, N, r)
        dark == noise_frames(height_px, width_px, e.etc_output.N_dark, N, sky.rng)
        cryo == noise_frames(height_px, width_px, e.etc_output.N_cryo, N, dark.rng)
        RN == noise_frames(height_px, width_px, e.etc_output.N_RN, N, cryo.rng)
    IN IF e.status # "ok"
       THEN [status |-> e.status, noise_frames_dict |-> EmptyDict,
             etc_output |-> NoneEtc, rng |-> r, used |-> {}, reused |-> FALSE]
       ELSE [status |-> "ok",
             noise_frames_dict |->
                 NoiseFramesDict(sky.frames, dark.frames, cryo.frames,
                                 RN.frames, gain),
             etc_output |-> e.etc_output,
             rng |-> RN.rng,
             used |-> sky.used \cup dark.used \cup cryo.used \cup RN.used,
             reused |-> \/ sky.used \cap dark.used # {}
                        \/ (sky.used \cup dark.used) \cap cryo.used # {}
                        \/ (sky.used \cup dark.used \cup cryo.used) \cap RN.used # {}]

RECURSIVE Insert(_, _)
\* v put into the sorted sequence s
Insert(v, s) ==
    IF s = <<>> THEN <<v>>
    ELSE IF v <= Head(s) THEN <<v>> \o s
         ELSE <<Head(s)>> \o Insert(v, Tail(s))

RECURSIVE SortFirstAxis(_, _, _)
\* the elements a[k, rest], k = from .. n - 1, in ascending order
SortFirstAxis(a, rest, from) ==
    IF from >= a.shape[1] THEN <<>>
    ELSE Insert(a.data[<<from>> \o rest], SortFirstAxis(a, rest, from + 1))

\* twice the median of a sorted sequence: the middle element, or the mean
\* of the two middle elements
Median2(s) ==
    LET n == Len(s)
    IN IF n % 2 = 1 THEN 2 * s[(n + 1) \div 2]
       ELSE s[n \div 2] + s[n \div 2 + 1]

\* np.median(images, axis = 0), doubled
median_combine(images) ==
    LET shape == Tail(images.shape)
    IN [shape |-> shape,
        data |-> [rest \in Indices(shape) |-> Median2(SortFirstAxis(images, rest, 0))]]

MasterDarkBySubtraction(noise_frames_dict) ==
    ArrSub(median_combine(noise_frames_dict.total),
           median_combine(noise_frames_dict.sky))

\* master_dark
MasterDark(noise_frames_dict) ==
    median_combine(ArrSub(noise_frames_dict.total, noise_frames_dict.sky))

\* master_dark_and_sky
MasterDarkAndSky(noise_frames_dict) == median_combine(noise_frames_dict.total)

dark_sky_master_frames_gained(N, height_px, width_px, band, t_exp, etc_input, generated, r) ==
    LET nf == noise_frames_from_etc(N, height_px, width_px, 3, band, t_exp,
                                    etc_input, generated, r)
    IN IF nf.status # "ok"
       THEN [status |-> nf.status, master_dark_and_sky |-> EmptyArray,
             master_dark |-> EmptyArray, local_frames |-> EmptyDict,
             etc_output |-> NoneEtc,
             N |-> N, rng |-> r, used |-> {}, reused |-> FALSE]
       ELSE [status |-> "ok",
             master_dark_and_sky |-> MasterDarkAndSky(nf.noise_frames_dict),
             master_dark |-> MasterDark(nf.noise_frames_dict),
             local_frames |-> nf.noise_frames_dict,
             etc_output |-> nf.etc_output,
             N |-> N, rng |-> nf.rng, used |-> nf.used, reused |-> nf.reused]

\* dark_sky_master_frames: no gain is handed on, so gain = 1.  local_frames
\* is the function's local noise_frames_dict, which it does not return, and
\* etc_output the ETC output it was made from, which is dropped ([0]).
dark_sky_master_frames(N, height_px, width_px, band, t_exp, etc_input, generated, r) ==
    LET nf == noise_frames_from_etc(N, height_px, width_px, 1, band, t_exp,
                                    etc_input, generated, r)
    IN IF nf.status # "ok"
       THEN [status |-> nf.status, master_dark_and_sky |-> EmptyArray,
             master_dark |-> EmptyArray, local_frames |-> EmptyDict,
             etc_output |-> NoneEtc,
             N |-> N, rng |-> r, used |-> {}, reused |-> FALSE]
       ELSE [status |-> "ok",
             master_dark_and_sky |-> MasterDarkAndSky(nf.noise_frames_dict),
             master_dark |-> MasterDark(nf.noise_frames_dict),
             local_frames |-> nf.noise_frames_dict,
             etc_output |-> nf.etc_output,
             N |-> N, rng |-> nf.rng, used |-> nf.used, reused |-> nf.reused]

(***************************************************************************)
(* src/obssim.py: add_tt                                                   *)
(***************************************************************************)

\* an optional argument: None, or a value of some kind
None == [kind |-> "None", v |-> 0]

Num(v) == [kind |-> "num", v |-> v]

\* plt.is_numlike: whether obj + 1 works (a number, an ndarray; not None,
\* not a list); later matplotlib versions accept numbers only
is_numlike(obj) ==
    \/ obj.kind = "num"
    \/ obj.kind = "ndarray" /\ cfg.numlike_arrays

\* scipy.ndimage.interpolation.shift by whole pixels: the image moved by
\* (shift_height, shift_width), zeros where nothing moves in
Shift(image, shift_height, shift_width) ==
    [shape |-> image.shape,
     data |-> [idx \in DOMAIN image.data |->
                  LET from == <<idx[1] - shift_height, idx[2] - shift_width>>
                  IN IF from \in DOMAIN image.data THEN image.data[from] ELSE 0]]

\* add_tt on the random source r
add_tt(image, sigma_tt_px, tt_idxs, r) ==
    IF ~is_numlike(sigma_tt_px) /\ ~is_numlike(tt_idxs)
    THEN [status |-> "UserWarning", image_tt |-> EmptyArray,
          tt_idxs |-> None, rng |-> r]
    ELSE IF is_numlike(sigma_tt_px)
    THEN LET shift_height == Randn(Stream(r.seed, r.pos)) * sigma_tt_px.v
             shift_width == Randn(Stream(r.seed, r.pos + 1)) * sigma_tt_px.v
         IN [status |-> "ok",
             image_tt |-> Shift(image, shift_height, shift_width),
             tt_idxs |-> [kind |-> "list", v |-> <<shift_height, shift_width>>],
             rng |-> [r EXCEPT !.pos = @ + 2]]
    ELSE [status |-> "ok",
          image_tt |-> Shift(image, tt_idxs.v[1], tt_idxs.v[2]),
          tt_idxs |-> tt_idxs,
          rng |-> r]

(***************************************************************************)
(* src/obssim.py: get_diffraction_limited_image                            *)
(***************************************************************************)

\* np.sqrt of a float: nan below zero
FloatSqrt(x) ==
    IF x < 0 THEN [cls |-> "nan", centi |-> 0]
    ELSE [cls |-> "finite", centi |-> SqrtCenti(x)]

\* a / b for a number a > 0 and a numpy float b >= 0: inf for b = 0, nan for
\* nan, no exception
FloatDiv(a, b) ==
    IF b.cls = "nan" THEN [cls |-> "nan", centi |-> 0]
    ELSE IF b.cls = "inf" THEN [cls |-> "finite", centi |-> 0]
    ELSE IF b.centi = 0 THEN [cls |-> "inf", centi |-> 0]
    ELSE [cls |-> "finite", centi |-> (a * 10000) \div b.centi]

\* The focal ratio and wavelength the function goes on with: those given,
\* or with an input focal ratio and wavelength those of the PSF to add in
\* quadrature.
QuadratureFRatio(f_ratio, wavelength_m, f_ratio_in, wavelength_in_m) ==
    IF f_ratio_in.kind # "None" /\ wavelength_in_m.kind # "None"
    THEN LET FWHM_in == wavelength_in_m.v * f_ratio_in.v
             FWHM_out == wavelength_m * f_ratio
             FWHM_prime == FloatSqrt(FWHM_out * FWHM_out - FWHM_in * FWHM_in)
             D_prime == FloatDiv(wavelength_in_m.v, FWHM_prime)
             f_ratio_prime == FloatDiv(1, D_prime)
         IN [composed |-> TRUE, FWHM_in |-> FWHM_in, FWHM_out |-> FWHM_out,
             f_ratio |-> f_ratio_prime, wavelength_m |-> wavelength_in_m.v]
    ELSE [composed |-> FALSE, FWHM_in |-> 0, FWHM_out |-> 0,
          f_ratio |-> [cls |-> "finite", centi |-> f_ratio * 100],
          wavelength_m |-> wavelength_m]

\* N_OS_input, in hundredths of 1 / (2 * l_px_m * deg2rad(206265 / 3600))
N_OS_input(q) ==
    IF q.f_ratio.cls = "nan" THEN [cls |-> "nan", centi |-> 0]
    ELSE [cls |-> "finite", centi |-> q.wavelength_m * q.f_ratio.centi]

\* get_diffraction_limited_image: the composition, the PSF (which the
\* derived focal ratio does not enter: psf_airy_disk_kernel is given N_OS
\* and l_px_m), then the resampling and convolution of each image.
\* resized: whether resizeImagesToDetector, which this file does not define,
\* returns.
get_diffraction_limited_image(f_ratio, wavelength_m, f_ratio_in, wavelength_in_m, resized) ==
    LET q == QuadratureFRatio(f_ratio, wavelength_m, f_ratio_in, wavelength_in_m)
    IN [status |-> IF resized THEN "ok" ELSE "error",
        f_ratio_arg |-> f_ratio, wavelength_arg |-> wavelength_m,
        f_ratio_in |-> f_ratio_in, wavelength_in_m |-> wavelength_in_m,
        composed |-> q.composed, FWHM_in |-> q.FWHM_in, FWHM_out |-> q.FWHM_out,
        f_ratio |-> q.f_ratio, wavelength_m |-> q.wavelength_m,
        N_OS_input |-> N_OS_input(q),
        psf_computed |-> TRUE,
        image_returned |-> resized]

(***************************************************************************)
(* src/obssim.py: airy_disc                                                *)
(*                                                                         *)
(* Grid coordinates are doubled (x_offset may be a half-integer), radii    *)
(* are in hundredths, the Airy profile in thousandths and intensities in   *)
(* units of 1e-5.  An intensity sample is [cls, v], cls "nan" for 0/0.     *)
(* A normalised kernel keeps its divisor: pixel (k, j) is data[k, j] / den.*)
(***************************************************************************)

\* 1000 * (2 J1(r) / r)^2 at r = 0.25, 0.50, ..., 8.00
AiryProfile ==
    <<984, 939, 867, 774, 667, 553, 439, 332, 237, 158, 95, 51, 22, 6, 0, 1,
      5, 10, 14, 17, 17, 15, 12, 8, 4, 2, 0, 0, 0, 1, 2, 3>>

\* (2 * jv(1, r) / r) ** 2 in thousandths for r > 0 in hundredths
AiryMilli(r_centi) ==
    LET k == r_centi \div 25
    IN IF k = 0 THEN 1000
       ELSE IF k > Len(AiryProfile) THEN 0
       ELSE AiryProfile[k]

\* -n // 2
AxisLo(n) == -((n + 1) \div 2)

\* the length of np.arange(-n // 2, n // 2 + n % 2 + 1)
AxisLen(n) == (n \div 2) + (n % 2) + 1 - AxisLo(n)

\* twice x_offset: the middle n / 2 without coords, else coords[i] * T
Offset2(n, T, coords, axis) ==
    IF coords.kind = "None" THEN n ELSE 2 * coords.v[axis] * T

\* twice the samples of x (y), in oversampled pixels: arange(...) + dx
AxisSamples2(n, T, coords, axis) ==
    LET dx2 == n - Offset2(n, T, coords, axis)
    IN [i \in 0 .. (AxisLen(n) - 1) |-> 2 * (AxisLo(n) + i) + dx2]

\* r(x, y), in hundredths, for doubled samples x2, y2 with x2^2 + y2^2 = d2
AiryRadiusCenti(d2, wavelength_m, f_ratio, l_px_m, T) ==
    (314 * l_px_m * SqrtCenti(d2)) \div (200 * T * wavelength_m * f_ratio)

I_0(P_0, wavelength_m, f_ratio) ==
    (78500 * P_0) \div (wavelength_m * wavelength_m * f_ratio * f_ratio)

\* I = I_fun(X, Y): 0/0 where x = y = 0
AiryIntensity(x2, y2, wavelength_m, f_ratio, l_px_m, T, P_0) ==
    [idx \in (DOMAIN x2) \X (DOMAIN y2) |->
        LET d2 == x2[idx[1]] * x2[idx[1]] + y2[idx[2]] * y2[idx[2]]
        IN IF d2 = 0 THEN [cls |-> "nan", v |-> 0]
           ELSE [cls |-> "finite",
                 v |-> (I_0(P_0, wavelength_m, f_ratio)
                          * AiryMilli(AiryRadiusCenti(d2, wavelength_m, f_ratio,
                                                      l_px_m, T))) \div 1000]]

\* the first index np.where(np.isnan(I)) lists (row-major order)
Before(a, b) == a[1] < b[1] \/ (a[1] = b[1] /\ a[2] < b[2])

NanIndices(I) == { idx \in DOMAIN I : I[idx].cls = "nan" }

FirstNan(I) ==
    CHOOSE idx \in NanIndices(I) : \A o \in NanIndices(I) \ {idx} : Before(idx, o)

NanFixTransposed(I, I0) ==
    IF NanIndices(I) = {} THEN I
    ELSE LET n == FirstNan(I)
         IN [idx \in DOMAIN I |->
                IF idx = <<n[2], n[1]>> THEN [cls |-> "finite", v |-> I0]
                ELSE I[idx]]

\* removing the NaN in the centre of the image if necessary
NanFix(I, I0) ==
    IF NanIndices(I) = {} THEN I
    ELSE [I EXCEPT ![FirstNan(I)] = [cls |-> "finite", v |-> I0]]

\* weight of a sample in the trapezoidal rule over T intervals
TrapWeight(a, T) == IF a = 0 \/ a = T THEN 1 ELSE 2

RECURSIVE SumOver(_, _)
\* the sum of f over the finite set S
SumOver(f, S) ==
    IF S = {} THEN 0
    ELSE LET e == CHOOSE x \in S : TRUE IN f[e] + SumOver(f, S \ {e})

\* res2[-1] of pixel (k, j), in units of (l_px_m / T)^2 / 4: the trapezoidal
\* rule along both axes over I[T*k : T*k+T+1, T*j : T*j+T+1]
PixelCount(I, T, k, j) ==
    LET block == (0 .. T) \X (0 .. T)
        at(ab) == I[<<T * k + ab[1], T * j + ab[2]>>]
    IN IF \E ab \in block : at(ab).cls = "nan" THEN [cls |-> "nan", v |-> 0]
       ELSE [cls |-> "finite",
             v |-> SumOver([ab \in block |->
                               TrapWeight(ab[1], T) * TrapWeight(ab[2], T)
                                   * at(ab).v], block)]

RECURSIVE Tabulate(_, _)
\* the array with the values of f at the indices S, stored element by element
Tabulate(f, S) ==
    IF S = {} THEN << >>
    ELSE LET e == CHOOSE x \in S : TRUE
         IN (e :> f[e]) @@ Tabulate(f, S \ {e})

RECURSIVE TabulateRows(_, _, _)
\* the same for the indices rows \X cols, row by row
TabulateRows(f, rows, cols) ==
    IF rows = {} THEN << >>
    ELSE LET r == CHOOSE x \in rows : TRUE
         IN Tabulate(f, {r} \X cols) @@ TabulateRows(f, rows \ {r}, cols)

\* the counts of the detector pixels and their sum, from the intensity map
AiryCounts(I, I0, detector_size_px, T, P_0, count) ==
    LET pixels == DOMAIN count
        P_sum == IF \E px \in pixels : count[px].cls = "nan"
                 THEN [cls |-> "nan", v |-> 0]
                 ELSE [cls |-> "finite",
                       v |-> SumOver([px \in pixels |-> count[px].v], pixels)]
    IN [status |-> "ok",
        count_cumtrapz |-> [shape |-> detector_size_px,
                            data |-> [px \in pixels |-> count[px].v],
                            cls |-> P_sum.cls,
                            den |-> P_sum.v],
        I |-> [shape |-> <<AxisLen(detector_size_px[1] * T),
                           AxisLen(detector_size_px[2] * T)>>,
               data |-> I],
        P_0 |-> P_0, P_sum |-> P_sum, I_0 |-> I0]

\* the trapezoidal rule over every detector pixel, then the normalisation
AiryIntegrate(I, I0, detector_size_px, T, P_0) ==
    AiryCounts(I, I0, detector_size_px, T, P_0,
               TabulateRows([px \in (0 .. (detector_size_px[1] - 1))
                                        \X (0 .. (detector_size_px[2] - 1)) |->
                                PixelCount(I, T, px[1], px[2])],
                            0 .. (detector_size_px[1] - 1),
                            0 .. (detector_size_px[2] - 1)))

\* the intensity map on the oversampled grid, its central NaN removed
AiryMap(x2, y2, wavelength_m, f_ratio, l_px_m, T, P_0) ==
    NanFix(TabulateRows(AiryIntensity(x2, y2, wavelength_m, f_ratio, l_px_m, T, P_0),
                        DOMAIN x2, DOMAIN y2),
           I_0(P_0, wavelength_m, f_ratio))

\* airy_disc: count_cumtrapz, I, P_0, P_sum, I_0
airy_disc(wavelength_m, f_ratio, l_px_m, detector_size_px, trapz_oversampling, coords, P_0) ==
    AiryIntegrate(
        AiryMap(AxisSamples2(detector_size_px[1] * trapz_oversampling,
                             trapz_oversampling, coords, 1),
                AxisSamples2(detector_size_px[2] * trapz_oversampling,
                             trapz_oversampling, coords, 2),
                wavelength_m, f_ratio, l_px_m, trapz_oversampling, P_0),
        I_0(P_0, wavelength_m, f_ratio), detector_size_px, trapz_oversampling, P_0)

(***************************************************************************)
(* src/obssim.py: psf_airy_disk_kernel                                     *)
(*                                                                         *)
(* np.deg2rad(206265 / 3600) is 1 to five digits and is taken as 1.        *)
(* trunc_sigma is in quarters, so that trunc_sigma * N_OS * 4 is whole.    *)
(***************************************************************************)

\* not x, for an optional number
Falsy(x) == x.kind = "None" \/ x.v = 0

\* The plate scale: the third of f_ratio, N_OS, l_px_m from the other two.
\* Arithmetic on None is a TypeError.  at_breakpoint: ipdb.set_trace() is
\* reached.
PlateScale(wavelength_m, l_px_m, f_ratio, N_OS) ==
    LET given == [status |-> "ok", f_ratio |-> f_ratio.v, N_OS |-> N_OS.v,
                  l_px_m |-> l_px_m.v, derived |-> "none",
                  at_breakpoint |-> FALSE]
        failed == [given EXCEPT !.status = "TypeError"]
    IN IF Falsy(f_ratio)
       THEN IF N_OS.kind = "None" \/ l_px_m.kind = "None" THEN failed
            ELSE [given EXCEPT !.f_ratio = (2 * N_OS.v * l_px_m.v) \div wavelength_m,
                               !.derived = "f_ratio"]
       ELSE IF Falsy(N_OS)
       THEN IF l_px_m.kind = "None" THEN failed
            ELSE [given EXCEPT !.N_OS = (wavelength_m * f_ratio.v) \div (2 * l_px_m.v),
                               !.derived = "N_OS",
                               !.at_breakpoint = TRUE]
       ELSE IF Falsy(l_px_m)
       THEN [given EXCEPT !.l_px_m = (wavelength_m * f_ratio.v) \div (2 * N_OS.v),
                          !.derived = "l_px_m"]
       ELSE given

\* detector_size_px, or (psf_size, psf_size) when it is not given
PsfDetectorSize(detector_size_px, trunc_sigma, N_OS) ==
    IF detector_size_px.kind = "None"
    THEN <<trunc_sigma * N_OS, trunc_sigma * N_OS>>
    ELSE detector_size_px.v

\* the kernel, from the plate scale ps on: airy_disc(...)[0]
PsfKernel(wavelength_m, ps, T_OS, detector_size_px, trunc_sigma) ==
    airy_disc(wavelength_m, ps.f_ratio, ps.l_px_m,
              PsfDetectorSize(detector_size_px, trunc_sigma, ps.N_OS),
              T_OS, None, 1).count_cumtrapz

(***************************************************************************)
(* src/obssim.py: convolve_psf                                             *)
(***************************************************************************)

\* np.pad(array, ((top, bottom), (left, right)), mode='constant')
Pad(array, top, bottom, left, right) ==
    [shape |-> <<array.shape[1] + top + bottom, array.shape[2] + left + right>>,
     data |-> TabulateRows(
                  [idx \in (0 .. (array.shape[1] + top + bottom - 1))
                              \X (0 .. (array.shape[2] + left + right - 1)) |->
                      IF <<idx[1] - top, idx[2] - left>> \in DOMAIN array.data
                      THEN array.data[<<idx[1] - top, idx[2] - left>>]
                      ELSE 0],
                  0 .. (array.shape[1] + top + bottom - 1),
                  0 .. (array.shape[2] + left + right - 1))]

\* an element of the full linear convolution of in1 and in2
FullConvolution(in1, in2, i, j) ==
    SumOver([ab \in DOMAIN in1.data |->
                IF <<i - ab[1], j - ab[2]>> \in DOMAIN in2.data
                THEN in1.data[ab] * in2.data[<<i - ab[1], j - ab[2]>>]
                ELSE 0],
            DOMAIN in1.data)

\* fftwconvolve.fftconvolve(in1, in2, mode='same'): the linear convolution,
\* its middle part of the shape of in1
fftconvolve(in1, in2) ==
    [shape |-> in1.shape,
     data |-> TabulateRows(
                  [idx \in DOMAIN in1.data |->
                      FullConvolution(in1, in2,
                                      idx[1] + ((in2.shape[1] - 1) \div 2),
                                      idx[2] + ((in2.shape[2] - 1) \div 2))],
                  0 .. (in1.shape[1] - 1), 0 .. (in1.shape[2] - 1))]

CropFromOrigin(array, r0, r1, c0, c1) ==
    [shape |-> <<r1 - r0, c1 - c0>>,
     data |-> [idx \in (0 .. (r1 - r0 - 1)) \X (0 .. (c1 - c0 - 1)) |->
                  array.data[idx]]]

\* array[r0 : r1, c0 : c1], for a slice inside the array
Crop(array, r0, r1, c0, c1) ==
    [shape |-> <<r1 - r0, c1 - c0>>,
     data |-> [idx \in (0 .. (r1 - r0 - 1)) \X (0 .. (c1 - c0 - 1)) |->
                  array.data[<<r0 + idx[1], c0 + idx[2]>>]]]

PadWidthsSymmetric(dim, padFactor) ==
    <<(dim \div padFactor) \div 2, (dim \div padFactor) \div 2>>

\* the rows (columns) added before and after an axis of length dim
PadWidths(dim, padFactor) ==
    <<(dim \div padFactor) \div 2, (dim \div padFactor) \div 2 + (dim % 2)>>

\* the cropped convolution, from the padded image on
ConvolveCrop(image, image_padded, psf, pad_ud, pad_lr, image_conv) ==
    [status |-> "ok", image_padded |-> image_padded, image_conv |-> image_conv,
     image_conv_cropped |->
         Crop(image_conv, pad_ud, image.shape[1] + pad_ud,
              pad_lr, image.shape[2] + pad_lr)]

ConvolvePadded(image, psf, pad_ud, pad_lr, image_padded) ==
    ConvolveCrop(image, image_padded, psf, pad_ud, pad_lr,
                 fftconvolve(image_padded, psf))

\* convolve_psf: image_conv_cropped, with the two arrays it is made from
convolve_psf(image, psf, padFactor) ==
    ConvolvePadded(image, psf,
                   PadWidths(image.shape[1], padFactor)[1],
                   PadWidths(image.shape[2], padFactor)[1],
                   Pad(image,
                       PadWidths(image.shape[1], padFactor)[1],
                       PadWidths(image.shape[1], padFactor)[2],
                       PadWidths(image.shape[2], padFactor)[1],
                       PadWidths(image.shape[2], padFactor)[2]))

(***************************************************************************)
(* src/obssim.py: field_star                                               *)
(***************************************************************************)

\* int(x / plate_scale_as_px): the quotient cut towards zero
IntQuotient(x, plate_scale_as_px) ==
    IF x >= 0 THEN x \div plate_scale_as_px ELSE -((-x) \div plate_scale_as_px)

\* the star padded to the field, from the pad widths on; np.pad refuses a
\* negative width
StarPadded(star, top, bottom, left, right) ==
    IF top < 0 \/ bottom < 0 \/ left < 0 \/ right < 0
    THEN [status |-> "ValueError", star_padded |-> EmptyArray]
    ELSE [status |-> "ok", star_padded |-> Pad(star, top, bottom, left, right)]

\* the pad before and after each axis, for the star's pixel coordinates
StarPlaced(star, star_coords_px, pad_ud, pad_lr) ==
    StarPadded(star, pad_ud + star_coords_px[1], pad_ud - star_coords_px[1],
               pad_lr + star_coords_px[2], pad_lr - star_coords_px[2])

\* field_star; count_rate is what etcutils.surface_brightness_to_count_rate
\* answers for the magnitude
field_star(psf, count_rate, star_coords_as, final_sz, plate_scale_as_px) ==
    StarPlaced(ArrMul(psf, count_rate),
               <<IntQuotient(star_coords_as[1], plate_scale_as_px),
                 IntQuotient(star_coords_as[2], plate_scale_as_px)>>,
               (final_sz[1] - psf.shape[1]) \div 2,
               (final_sz[2] - psf.shape[2]) \div 2)

(***************************************************************************)
(* States and steps                                                        *)
(***************************************************************************)

\* etc_output before any call
NoEtcOutput ==
    [status |-> "none", t_exp |-> 0, band |-> "J", surfaceBrightness |-> 0,
     magnitudeSystem |-> "AB",
     sigma_source |-> 0, sigma_dark |-> 0, sigma_cryo |-> 0, sigma_sky |-> 0,
     sigma_sky_emp |-> 0, sigma_tel |-> 0, sigma_sky_thermal |-> 0,
     sigma_RN |-> 0,
     N_source |-> 0, N_dark |-> 0, N_cryo |-> 0, N_sky_emp |-> 0,
     N_sky_thermal |-> 0, N_sky |-> 0, N_tel |-> 0, N_RN |-> 0,
     SNR |-> [cls |-> "finite", centi |-> 0]]

NoFluxOutput ==
    [status |-> "none", value |-> 0, band |-> "J", surfaceBrightness |-> 0,
     magnitudeSystem |-> "AB"]

\* The instrument (the telescope, detector and cryo objects of the apdsim
\* package) and the module globals the functions read.
BaseConfig ==
    [global_band |-> "undefined",
     dark_current |-> 0, read_noise |-> 0,
     qe_gain |-> 1, tau |-> 1, Tr_win |-> 1,
     cryo_emission |-> 2, cryo_T |-> 1,
     band_factor |-> [J |-> 1, H |-> 2, K |-> 3],
     sky_brightness |-> [J |-> 200, H |-> 195, K |-> 190],
     I_mirrors |-> [J |-> 1, H |-> 2, K |-> 20],
     I_spider_best |-> [J |-> 0, H |-> 1, K |-> 5],
     I_spider_worst |-> [J |-> 1, H |-> 2, K |-> 9],
     I_window |-> [J |-> 0, H |-> 0, K |-> 2],
     I_sky |-> [J |-> 1, H |-> 12, K |-> 15],
     optical_system |-> "undefined",
     numlike_arrays |-> TRUE]

EtcConfigs ==
    { BaseConfig,
      [BaseConfig EXCEPT !.dark_current = 1, !.read_noise = 2],
      [BaseConfig EXCEPT !.dark_current = 3, !.global_band = "H"],
      [BaseConfig EXCEPT !.read_noise = 1, !.Tr_win = 2, !.global_band = "H"],
      [BaseConfig EXCEPT !.dark_current = 3, !.read_noise = 2, !.Tr_win = 2,
                         !.cryo_T = 3],
      [BaseConfig EXCEPT !.dark_current = 1, !.global_band = "K", !.cryo_T = 3] }

NoNoiseFrames ==
    [status |-> "none", N |-> 0, height_px |-> 0, width_px |-> 0, gain |-> 0,
     band |-> "None", t_exp |-> "None", etc_input |-> NoneEtc,
     noise_frames_dict |-> EmptyDict, etc_output |-> NoneEtc, pos0 |-> 0]

NoMasterFrames ==
    [status |-> "none", N |-> 0, height_px |-> 0, width_px |-> 0,
     master_dark_and_sky |-> EmptyArray, master_dark |-> EmptyArray,
     local_frames |-> EmptyDict, etc_output |-> NoneEtc, pos0 |-> 0,
     science_gain |-> 0]

NoDraws == [science |-> {}, master |-> {}, reused |-> FALSE, calls |-> 0]

Seeds == {1, 2}

Gains == {1, 3}

DetectorSizes == {<<1, 2>>, <<2, 2>>}

\* the ways to give noise_frames_from_etc its ETC output: a dictionary, or
\* None with or without a band and an exposure time
\* (generated: what etc.exposure_time_calc answers when it is called)
EtcArguments ==
    { [etc_input |-> e, band |-> "None", t_exp |-> "None", generated |-> e] :
        e \in EtcInputs }
    \cup { [etc_input |-> NoneEtc, band |-> "K", t_exp |-> "1", generated |-> e] :
              e \in EtcInputs }
    \cup { [etc_input |-> NoneEtc, band |-> "K", t_exp |-> "None", generated |-> NoneEtc],
           [etc_input |-> NoneEtc, band |-> "None", t_exp |-> "1", generated |-> NoneEtc] }

NoJitter ==
    [status |-> "none", image |-> EmptyArray, sigma_tt_px |-> None,
     tt_idxs_arg |-> None, image_tt |-> EmptyArray, tt_idxs |-> None,
     pos0 |-> 0]

NoDiffractionLimited ==
    [status |-> "none", f_ratio_arg |-> 0, wavelength_arg |-> 0,
     f_ratio_in |-> None, wavelength_in_m |-> None,
     composed |-> FALSE, FWHM_in |-> 0, FWHM_out |-> 0,
     f_ratio |-> [cls |-> "finite", centi |-> 0], wavelength_m |-> 0,
     N_OS_input |-> [cls |-> "finite", centi |-> 0],
     psf_computed |-> FALSE, image_returned |-> FALSE]

Images ==
    { [shape |-> <<2, 2>>,
       data |-> [idx \in Indices(<<2, 2>>) |-> 1 + Flat(<<2, 2>>, idx)]],
      [shape |-> <<2, 2>>,
       data |-> [idx \in Indices(<<2, 2>>) |-> IF idx = <<0, 1>> THEN 5 ELSE 0]] }

Sigmas == {None, Num(1), Num(2)}

ShiftVectors ==
    {None} \cup { [kind |-> k, v |-> v] :
                    k \in {"list", "ndarray"}, v \in {<<0, 1>>, <<1, -1>>} }

Wavelengths == {1, 2}

MaxOversampling == 3  \* trapezoidal oversampling factors 1 .. MaxOversampling

NoAiry ==
    [status |-> "none", wavelength_m |-> 0, f_ratio |-> 0, l_px_m |-> 0,
     detector_size_px |-> <<0, 0>>, trapz_oversampling |-> 0, coords |-> None,
     count_cumtrapz |-> [shape |-> <<0, 0>>, data |-> << >>, cls |-> "finite",
                         den |-> 0],
     I |-> EmptyArray, P_0 |-> 0, P_sum |-> [cls |-> "finite", v |-> 0],
     I_0 |-> 0]

NoKernel == [shape |-> <<0, 0>>, data |-> << >>, cls |-> "finite", den |-> 0]

NoPsf ==
    [status |-> "none", wavelength_m |-> 0, l_px_m |-> None, f_ratio |-> None,
     N_OS |-> None, T_OS |-> 0, detector_size_px |-> None, trunc_sigma |-> 0,
     plate_scale |-> [status |-> "ok", f_ratio |-> 0, N_OS |-> 0, l_px_m |-> 0,
                      derived |-> "none", at_breakpoint |-> FALSE],
     blocked |-> FALSE, kernel |-> NoKernel]

\* an optional number: None or 1 .. n
Optional(n) == {None} \cup { Num(v) : v \in 1 .. n }

\* the arguments of a call of psf_airy_disk_kernel; where a third is derived
\* from two, those for which it is a whole number of the model's units
PsfArguments ==
    { a \in { [NoPsf EXCEPT !.wavelength_m = w, !.l_px_m = l, !.f_ratio = f,
                            !.N_OS = n, !.T_OS = 2, !.detector_size_px = d,
                            !.trunc_sigma = 1] :
                w \in {2, 4}, l \in Optional(2), f \in Optional(MaxFRatio),
                n \in Optional(2),
                d \in {None, [kind |-> "tuple", v |-> <<2, 1>>]} } :
        /\ (a.f_ratio.kind = "None" /\ a.N_OS.kind # "None" /\ a.l_px_m.kind # "None")
              => (2 * a.N_OS.v * a.l_px_m.v) % a.wavelength_m = 0
        /\ (a.f_ratio.kind # "None" /\ a.N_OS.kind = "None" /\ a.l_px_m.kind # "None")
              => (a.wavelength_m * a.f_ratio.v) % (2 * a.l_px_m.v) = 0
        /\ (a.f_ratio.kind # "None" /\ a.N_OS.kind # "None" /\ a.l_px_m.kind = "None")
              => (a.wavelength_m * a.f_ratio.v) % (2 * a.N_OS.v) = 0 }

MaxPadFactor == 2     \* pad factors 1 .. MaxPadFactor

NoConvolution ==
    [status |-> "none", image |-> EmptyArray, psf |-> EmptyArray,
     padFactor |-> 0, image_padded |-> EmptyArray, image_conv |-> EmptyArray,
     image_conv_cropped |-> EmptyArray]

\* an array of a shape filled after a pattern
Patterned(shape, pattern) ==
    [shape |-> shape,
     data |-> [idx \in Indices(shape) |->
                  IF pattern = "ones" THEN 1
                  ELSE IF pattern = "ramp" THEN 1 + Flat(shape, idx)
                  ELSE IF pattern = "corner"
                  THEN (IF idx = <<0, 0>> THEN 3 ELSE 0)
                  ELSE (IF idx = <<shape[1] \div 2, shape[2] \div 2>> THEN 2 ELSE 0)]]

ConvImages ==
    { Patterned(sh, pt) : sh \in {<<1, 1>>, <<2, 3>>, <<3, 3>>, <<4, 3>>},
                          pt \in {"ramp", "corner", "centre"} }

ConvKernels ==
    { Patterned(<<1, 1>>, "ramp"), Patterned(<<3, 3>>, "ones"),
      Patterned(<<3, 3>>, "centre"), Patterned(<<2, 3>>, "ramp") }

ConvArguments ==
    { [NoConvolution EXCEPT !.image = i, !.psf = k, !.padFactor = f] :
        i \in ConvImages, k \in ConvKernels, f \in 1 .. MaxPadFactor }

NoStar ==
    [status |-> "none", psf |-> EmptyArray, count_rate |-> 0,
     star_coords_as |-> <<0, 0>>, final_sz |-> <<0, 0>>,
     plate_scale_as_px |-> 0, star_padded |-> EmptyArray]

StarArguments ==
    { [NoStar EXCEPT !.psf = k, !.count_rate = c, !.star_coords_as = o,
                     !.final_sz = f, !.plate_scale_as_px = p] :
        k \in { Patterned(<<1, 1>>, "ramp"), Patterned(<<2, 2>>, "ramp"),
                Patterned(<<3, 3>>, "ones") },
        c \in {1, 2},
        o \in {<<0, 0>>, <<1, -1>>, <<-3, 2>>, <<2, 2>>},
        f \in {<<3, 3>>, <<4, 4>>, <<4, 5>>},
        p \in {1, 2} }

AiryDetectorSizes == {<<1, 1>>, <<2, 2>>, <<2, 3>>, <<3, 3>>}

PixelSizes == {1, 2}

TotalEnergies == {1, 2}

CentreCoords == {None, [kind |-> "list", v |-> <<1, 1>>], [kind |-> "list", v |-> <<0, 1>>]}

\* the state of every part before any call, but for cfg and the seed
Idle ==
    /\ etc_output = NoEtcOutput
    /\ flux_out = NoFluxOutput
    /\ rng.pos = 0
    /\ nf_out = NoNoiseFrames
    /\ master_out = NoMasterFrames
    /\ draws = NoDraws
    /\ tt_out = NoJitter
    /\ dl_out = NoDiffractionLimited
    /\ airy_out = NoAiry
    /\ psf_out = NoPsf
    /\ conv_out = NoConvolution
    /\ star_out = NoStar

InitETC == cfg \in EtcConfigs /\ rng = [seed |-> 1, pos |-> 0] /\ Idle

ExposureTimeCalcCall ==
    /\ \E band \in Bands, t_exp \in 0 .. MaxTExp,
          surfaceBrightness \in SurfaceBrightnesses,
          magnitudeSystem \in MagnitudeSystems, worstCaseSpider \in BOOLEAN :
            etc_output' = exposureTimeCalc(band, t_exp, surfaceBrightness,
                                           magnitudeSystem, worstCaseSpider)
    /\ flux_out' = NoFluxOutput
    /\ UNCHANGED <<cfg, rng, nf_out, master_out, draws, tt_out, dl_out, psfVars>>

\* a direct call of getPhotonFlux with the band's parameters
GetPhotonFluxCall ==
    /\ \E band \in Bands, surfaceBrightness \in SurfaceBrightnesses,
          magnitudeSystem \in MagnitudeSystems :
            LET res == getPhotonFlux(surfaceBrightness, cfg.band_factor[band],
                                     cfg.tau * cfg.Tr_win, cfg.qe_gain,
                                     magnitudeSystem)
            IN flux_out' = [status |-> res.status, value |-> res.value,
                            band |-> band,
                            surfaceBrightness |-> surfaceBrightness,
                            magnitudeSystem |-> magnitudeSystem]
    /\ etc_output' = NoEtcOutput
    /\ UNCHANGED <<cfg, rng, nf_out, master_out, draws, tt_out, dl_out, psfVars>>

NextETC == ExposureTimeCalcCall \/ GetPhotonFluxCall

SpecETC == InitETC /\ [][NextETC]_vars

FrameConfigs ==
    { [BaseConfig EXCEPT !.optical_system = o] : o \in {"undefined", "None", "set"} }

InitFrames ==
    /\ cfg \in FrameConfigs
    /\ rng \in [seed : Seeds, pos : {0}]
    /\ Idle

\* a call of noise_frames_from_etc whose frames go to the caller (to be
\* added to science images)
NoiseFramesFromEtcCall ==
    /\ draws.calls < MaxCalls
    /\ \E N \in 1 .. MaxFrames, sz \in DetectorSizes, gain \in Gains,
          a \in EtcArguments :
          \E res \in { noise_frames_from_etc(N, sz[1], sz[2], gain, a.band,
                                             a.t_exp, a.etc_input, a.generated, rng) } :
               /\ nf_out' = [status |-> res.status, N |-> N,
                             height_px |-> sz[1], width_px |-> sz[2],
                             gain |-> gain,
                             band |-> a.band, t_exp |-> a.t_exp,
                             etc_input |-> a.etc_input,
                             noise_frames_dict |-> res.noise_frames_dict,
                             etc_output |-> res.etc_output, pos0 |-> rng.pos]
               /\ rng' = res.rng
               /\ draws' = [science |-> draws.science \cup res.used,
                            master |-> draws.master,
                            reused |-> \/ draws.reused
                                       \/ res.reused
                                       \/ res.used \cap (draws.science \cup draws.master) # {},
                            calls |-> draws.calls + 1]
    /\ master_out' = NoMasterFrames
    /\ UNCHANGED <<cfg, etc_output, flux_out, tt_out, dl_out, psfVars>>

\* a call of dark_sky_master_frames.  science_gain (history) is the gain of
\* the noise_frames_from_etc call just before it when that call made frames
\* from the same ETC output, and 0 otherwise.
DarkSkyMasterFramesCall ==
    /\ draws.calls < MaxCalls
    /\ \E N \in 1 .. MaxFrames, sz \in DetectorSizes,
          a \in EtcArguments :
          \E res \in { dark_sky_master_frames(N, sz[1], sz[2], a.band, a.t_exp,
                                              a.etc_input, a.generated, rng) } :
               /\ master_out' = [status |-> res.status, N |-> N,
                                 height_px |-> sz[1], width_px |-> sz[2],
                                 master_dark_and_sky |-> res.master_dark_and_sky,
                                 master_dark |-> res.master_dark,
                                 local_frames |-> res.local_frames,
                                 etc_output |-> res.etc_output,
                                 pos0 |-> rng.pos,
                                 science_gain |->
                                     IF /\ res.status = "ok"
                                        /\ nf_out.status = "ok"
                                        /\ nf_out.etc_output = res.etc_output
                                     THEN nf_out.gain ELSE 0]
               /\ rng' = res.rng
               /\ draws' = [science |-> draws.science,
                            master |-> draws.master \cup res.used,
                            reused |-> \/ draws.reused
                                       \/ res.reused
                                       \/ res.used \cap (draws.science \cup draws.master) # {},
                            calls |-> draws.calls + 1]
    /\ nf_out' = NoNoiseFrames
    /\ UNCHANGED <<cfg, etc_output, flux_out, tt_out, dl_out, psfVars>>

NextFrames == NoiseFramesFromEtcCall \/ DarkSkyMasterFramesCall

SpecFrames == InitFrames /\ [][NextFrames]_vars

JitterConfigs ==
    { [BaseConfig EXCEPT !.numlike_arrays = b] : b \in BOOLEAN }

InitTT ==
    /\ cfg \in JitterConfigs
    /\ rng \in [seed : Seeds, pos : {0}]
    /\ Idle

AddTTCall ==
    /\ draws.calls < MaxCalls
    /\ \E image \in Images, sigma_tt_px \in Sigmas, tt_idxs \in ShiftVectors :
          \E res \in { add_tt(image, sigma_tt_px, tt_idxs, rng) } :
               /\ tt_out' = [status |-> res.status, image |-> image,
                             sigma_tt_px |-> sigma_tt_px,
                             tt_idxs_arg |-> tt_idxs,
                             image_tt |-> res.image_tt,
                             tt_idxs |-> res.tt_idxs, pos0 |-> rng.pos]
               /\ rng' = res.rng
    /\ draws' = [draws EXCEPT !.calls = @ + 1]
    /\ UNCHANGED <<cfg, etc_output, flux_out, nf_out, master_out, dl_out, psfVars>>

NextTT == AddTTCall

SpecTT == InitTT /\ [][NextTT]_vars

InitDL == cfg = BaseConfig /\ rng = [seed |-> 1, pos |-> 0] /\ Idle

GetDiffractionLimitedImageCall ==
    /\ \E f_ratio \in 1 .. MaxFRatio, wavelength_m \in Wavelengths,
          f_ratio_in \in {None} \cup {Num(f) : f \in 1 .. MaxFRatio},
          wavelength_in_m \in {None} \cup {Num(w) : w \in Wavelengths},
          resized \in BOOLEAN :
            dl_out' = get_diffraction_limited_image(f_ratio, wavelength_m,
                          f_ratio_in, wavelength_in_m, resized)
    /\ UNCHANGED <<cfg, etc_output, flux_out, rng, nf_out, master_out, draws, tt_out, psfVars>>

NextDL == GetDiffractionLimitedImageCall

SpecDL == InitDL /\ [][NextDL]_vars

\* airy_disc applied to the arguments drawn at the start
AiryDiscCall ==
    /\ airy_out.status = "none"
    /\ \E res \in { airy_disc(airy_out.wavelength_m, airy_out.f_ratio,
                             airy_out.l_px_m, airy_out.detector_size_px,
                             airy_out.trapz_oversampling, airy_out.coords,
                             airy_out.P_0) } :
          airy_out' = [airy_out EXCEPT !.status = res.status,
                                       !.count_cumtrapz = res.count_cumtrapz,
                                       !.I = res.I, !.P_sum = res.P_sum,
                                       !.I_0 = res.I_0]
    /\ UNCHANGED <<simVars, psf_out, conv_out, star_out>>

\* the arguments of a call of airy_disc
AiryArguments ==
    { [NoAiry EXCEPT !.wavelength_m = w, !.f_ratio = f, !.l_px_m = l,
                     !.detector_size_px = d, !.trapz_oversampling = t,
                     !.coords = c, !.P_0 = p] :
        w \in Wavelengths, f \in 1 .. MaxFRatio, l \in PixelSizes,
        d \in AiryDetectorSizes, t \in 1 .. MaxOversampling,
        c \in CentreCoords, p \in TotalEnergies }

InitAiry ==
    /\ cfg = BaseConfig
    /\ rng = [seed |-> 1, pos |-> 0]
    /\ etc_output = NoEtcOutput /\ flux_out = NoFluxOutput
    /\ nf_out = NoNoiseFrames /\ master_out = NoMasterFrames
    /\ draws = NoDraws /\ tt_out = NoJitter /\ dl_out = NoDiffractionLimited
    /\ airy_out \in AiryArguments
    /\ psf_out = NoPsf /\ conv_out = NoConvolution /\ star_out = NoStar

NextAiry == AiryDiscCall

SpecAiry == InitAiry /\ [][NextAiry]_vars

\* psf_airy_disk_kernel up to its return, its failure, or the breakpoint
PsfAiryDiskKernelCall ==
    /\ psf_out.status = "none"
    /\ \E ps \in { PlateScale(psf_out.wavelength_m, psf_out.l_px_m,
                               psf_out.f_ratio, psf_out.N_OS) } :
          IF ps.status # "ok"
          THEN psf_out' = [psf_out EXCEPT !.status = ps.status, !.plate_scale = ps]
          ELSE IF ps.at_breakpoint
          THEN psf_out' = [psf_out EXCEPT !.status = "debugger", !.plate_scale = ps,
                                          !.blocked = TRUE]
          ELSE \E kernel \in { PsfKernel(psf_out.wavelength_m, ps, psf_out.T_OS,
                                          psf_out.detector_size_px,
                                          psf_out.trunc_sigma) } :
                  psf_out' = [psf_out EXCEPT !.status = "ok", !.plate_scale = ps,
                                             !.kernel = kernel]
    /\ UNCHANGED <<simVars, airy_out, conv_out, star_out>>

\* someone at the terminal lets the debugger continue: the call goes on
DebuggerContinue ==
    /\ psf_out.status = "debugger"
    /\ \E kernel \in { PsfKernel(psf_out.wavelength_m, psf_out.plate_scale,
                                  psf_out.T_OS, psf_out.detector_size_px,
                                  psf_out.trunc_sigma) } :
          psf_out' = [psf_out EXCEPT !.status = "ok", !.kernel = kernel]
    /\ UNCHANGED <<simVars, airy_out, conv_out, star_out>>

\* the debugger is quit, or its input is at its end
DebuggerQuit ==
    /\ psf_out.status = "debugger"
    /\ psf_out' = [psf_out EXCEPT !.status = "BdbQuit"]
    /\ UNCHANGED <<simVars, airy_out, conv_out, star_out>>

InitPSF ==
    /\ cfg = BaseConfig
    /\ rng = [seed |-> 1, pos |-> 0]
    /\ etc_output = NoEtcOutput /\ flux_out = NoFluxOutput
    /\ nf_out = NoNoiseFrames /\ master_out = NoMasterFrames
    /\ draws = NoDraws /\ tt_out = NoJitter /\ dl_out = NoDiffractionLimited
    /\ airy_out = NoAiry
    /\ psf_out \in PsfArguments
    /\ conv_out = NoConvolution /\ star_out = NoStar

NextPSF == PsfAiryDiskKernelCall \/ DebuggerContinue \/ DebuggerQuit

SpecPSF == InitPSF /\ [][NextPSF]_vars

\* convolve_psf applied to the arguments drawn at the start
ConvolvePsfCall ==
    /\ conv_out.status = "none"
    /\ \E res \in { convolve_psf(conv_out.image, conv_out.psf, conv_out.padFactor) } :
          conv_out' = [conv_out EXCEPT !.status = res.status,
                                       !.image_padded = res.image_padded,
                                       !.image_conv = res.image_conv,
                                       !.image_conv_cropped = res.image_conv_cropped]
    /\ UNCHANGED <<simVars, airy_out, psf_out, star_out>>

InitConv ==
    /\ cfg = BaseConfig
    /\ rng = [seed |-> 1, pos |-> 0]
    /\ etc_output = NoEtcOutput /\ flux_out = NoFluxOutput
    /\ nf_out = NoNoiseFrames /\ master_out = NoMasterFrames
    /\ draws = NoDraws /\ tt_out = NoJitter /\ dl_out = NoDiffractionLimited
    /\ airy_out = NoAiry /\ psf_out = NoPsf
    /\ conv_out \in ConvArguments
    /\ star_out = NoStar

NextConv == ConvolvePsfCall

SpecConv == InitConv /\ [][NextConv]_vars

\* field_star applied to the arguments drawn at the start
FieldStarCall ==
    /\ star_out.status = "none"
    /\ \E res \in { field_star(star_out.psf, star_out.count_rate,
                              star_out.star_coords_as, star_out.final_sz,
                              star_out.plate_scale_as_px) } :
          star_out' = [star_out EXCEPT !.status = res.status,
                                       !.star_padded = res.star_padded]
    /\ UNCHANGED <<simVars, airy_out, psf_out, conv_out>>

InitStar ==
    /\ cfg = BaseConfig
    /\ rng = [seed |-> 1, pos |-> 0]
    /\ etc_output = NoEtcOutput /\ flux_out = NoFluxOutput
    /\ nf_out = NoNoiseFrames /\ master_out = NoMasterFrames
    /\ draws = NoDraws /\ tt_out = NoJitter /\ dl_out = NoDiffractionLimited
    /\ airy_out = NoAiry /\ psf_out = NoPsf /\ conv_out = NoConvolution
    /\ star_out \in StarArguments

NextStar == FieldStarCall

SpecStar == InitStar /\ [][NextStar]_vars

(***************************************************************************)
(* Claims about the exposure time calculator (checked under SpecETC)       *)
(***************************************************************************)

\* the denominator of the SNR, from the fields of the returned record
RecordTotal ==
    etc_output.N_source + etc_output.N_dark + etc_output.N_cryo
        + etc_output.N_sky + etc_output.N_RN

\* C1: the SNR of a returned record is N_source / sqrt(N_source + N_dark +
\* N_cryo + N_sky + N_RN) over the fields of that same record, with
\* N_RN = read_noise^2: in hundredths rounded down, SNR.centi is the largest
\* c with c^2 * total <= (100 * N_source)^2; with a zero total the quotient
\* is no finite number.
C1_SNRFromRecordFields ==
    etc_output.status = "ok" =>
        /\ etc_output.N_RN = cfg.read_noise * cfg.read_noise
        /\ RecordTotal > 0 =>
              LET c == etc_output.SNR.centi
                  n == etc_output.N_source
              IN /\ etc_output.SNR.cls = "finite"
                 /\ c * c * RecordTotal <= n * n * 10000
                 /\ (c + 1) * (c + 1) * RecordTotal > n * n * 10000
        /\ RecordTotal = 0 => etc_output.SNR.cls # "finite"

C1_Witness ==
    /\ etc_output.status = "ok"
    /\ etc_output.band = "K"
    /\ etc_output.N_source > 0
    /\ etc_output.N_dark > 0
    /\ etc_output.N_cryo > 0
    /\ etc_output.N_sky > 0
    /\ etc_output.N_RN > 0
    /\ etc_output.SNR.centi > 100

\* C2: the combined sky term is chosen by the band alone: thermal sky plus
\* telescope in K, the empirical sky in J and H.
C2_SkyByBand ==
    etc_output.status = "ok" =>
        IF etc_output.band = "K"
        THEN etc_output.N_sky = etc_output.N_sky_thermal + etc_output.N_tel
        ELSE etc_output.N_sky = etc_output.N_sky_emp

C2_Witness ==
    /\ etc_output.status = "ok"
    /\ etc_output.band = "H"
    /\ etc_output.N_sky_emp > 0
    /\ etc_output.N_sky_thermal + etc_output.N_tel > etc_output.N_sky_emp
    /\ etc_output.N_sky = etc_output.N_sky_emp

\* C3: the source count follows the magnitude system the caller gave: the AB
\* zero point for "AB", the requested band's Vega zero point for "Vega".
C3_SourceFollowsMagnitudeSystem ==
    (etc_output.status = "ok" /\ etc_output.magnitudeSystem \in {"AB", "Vega"}) =>
        LET zp == IF etc_output.magnitudeSystem = "AB" THEN AB_ZeroPoint
                  ELSE Vega_magnitudes[etc_output.band]
        IN etc_output.N_source =
              ((F_nu_cgs(zp, etc_output.surfaceBrightness)
                  * cfg.band_factor[etc_output.band]
                  * cfg.tau * cfg.Tr_win * cfg.qe_gain) \div 100)
                * etc_output.t_exp

\* C9: no record is returned when the SNR denominator is zero.
C9_ZeroDenominatorFails ==
    etc_output.status = "ok" =>
        (RecordTotal # 0 /\ etc_output.SNR.cls = "finite")

\* C10: with a magnitude system other than AB and Vega neither
\* exposureTimeCalc nor getPhotonFlux returns a result.
C10_UnsupportedSystemFails ==
    /\ etc_output.status = "ok" => etc_output.magnitudeSystem \in {"AB", "Vega"}
    /\ flux_out.status = "ok" => flux_out.magnitudeSystem \in {"AB", "Vega"}

\* the distance of grid point k's cryostat emission from the dark current
CryoDistance(k) == Abs(I_cryo(k) - cfg.dark_current)

\* k is the first grid point at the least distance from the dark current
FirstClosest(k) ==
    /\ \A j \in 1 .. CryoGridLen : CryoDistance(k) <= CryoDistance(j)
    /\ \A j \in 1 .. (k - 1) : CryoDistance(k) < CryoDistance(j)

\* C20: the cryostat rate of exposureTimeCalc is I_cryo[idx], idx the
\* smallest grid index at the least distance |I_cryo[k] - dark_current|;
\* it is a function of the dark current, whatever the configured cryostat
\* temperature.
C20_CryostatRateIsCrossing ==
    etc_output.status = "ok" =>
        \E idx \in 1 .. CryoGridLen :
            /\ FirstClosest(idx)
            /\ etc_output.N_cryo = I_cryo(idx) * etc_output.t_exp

\* a result where two grid points are equally close to the dark current and
\* the configured temperature is not the crossing point
C20_Witness ==
    /\ etc_output.status = "ok"
    /\ etc_output.t_exp > 0
    /\ \E i \in 1 .. CryoGridLen, j \in 1 .. CryoGridLen :
          i < j /\ FirstClosest(i) /\ CryoDistance(i) = CryoDistance(j)
    /\ ~FirstClosest(cfg.cryo_T)
    /\ etc_output.N_cryo # I_cryo(cfg.cryo_T) * etc_output.t_exp

(***************************************************************************)
(* Claims about the noise and master frames (checked under SpecFrames)     *)
(***************************************************************************)

\* C4: every call of noise_frames draws at stream positions no earlier call
\* has drawn at, so the draws behind the master frames and the draws in the
\* frames returned for science images are disjoint, and the positions
\* consumed are exactly those before the source's position.
C4_FreshDraws ==
    /\ draws.science \cap draws.master = {}
    /\ ~draws.reused
    /\ draws.science \cup draws.master = 0 .. (rng.pos - 1)

C4_Witness ==
    /\ draws.science # {}
    /\ draws.master # {}
    /\ master_out.status = "ok"

\* v is the element of rank r (1-based, ascending) among vals[0 .. n-1]
AtRank(vals, n, v, r) ==
    /\ Cardinality({k \in 0 .. n - 1 : vals[k] < v}) < r
    /\ Cardinality({k \in 0 .. n - 1 : vals[k] <= v}) >= r

\* m2 is twice the median of vals[0 .. n-1]
IsMedian2(vals, n, m2) ==
    \E lo \in {vals[k] : k \in 0 .. n - 1}, hi \in {vals[k] : k \in 0 .. n - 1} :
        /\ AtRank(vals, n, lo, (n + 1) \div 2)
        /\ AtRank(vals, n, hi, n \div 2 + 1)
        /\ m2 = lo + hi

\* C5 as stated: masterDark = masterDarkAndSky - median of the sky frames.
C5_MasterDarkIsDifferenceOfMedians ==
    master_out.status = "ok" =>
        master_out.master_dark =
            ArrSub(master_out.master_dark_and_sky,
                   median_combine(master_out.local_frames.sky))

\* C5 amended: masterDark is the median along the first axis of the stack
\* (total - sky), and masterDarkAndSky the median along the first axis of
\* the stack total (medians doubled).
C5_MasterDarkIsMedianOfDifference ==
    master_out.status = "ok" =>
        LET total == master_out.local_frames.total
            sky == master_out.local_frames.sky
            n == total.shape[1]
            rests == Indices(Tail(total.shape))
        IN /\ DOMAIN master_out.master_dark.data = rests
           /\ DOMAIN master_out.master_dark_and_sky.data = rests
           /\ \A rest \in rests :
                /\ IsMedian2([k \in 0 .. n - 1 |->
                                 total.data[<<k>> \o rest] - sky.data[<<k>> \o rest]],
                             n, master_out.master_dark.data[rest])
                /\ IsMedian2([k \in 0 .. n - 1 |-> total.data[<<k>> \o rest]],
                             n, master_out.master_dark_and_sky.data[rest])

C5_Witness ==
    /\ master_out.status = "ok"
    /\ master_out.N = 3
    /\ master_out.master_dark #
            ArrSub(master_out.master_dark_and_sky,
                   median_combine(master_out.local_frames.sky))

\* C6: with gain g >= 1, sky, dark and cryo are the unity-gain Poisson draws
\* times g, RN is the draw itself, 'gain-multiplied' = sky + cryo + dark,
\* 'post-gain' = RN, 'unity gain' = 'gain-multiplied' / g, and
\* total = sky + dark + cryo + RN = 'gain-multiplied' + 'post-gain', at
\* every pixel of every frame.
C6_GainStages ==
    (nf_out.status = "ok" /\ nf_out.gain >= 1) =>
        LET d == nf_out.noise_frames_dict
            e == nf_out.etc_output
            g == nf_out.gain
            shape == d.sky.shape
            n == Size(shape)
            Draw(lam, k, idx) ==
                Poisson(lam, Stream(rng.seed, nf_out.pos0 + k * n + Flat(shape, idx)))
        IN /\ \A key \in DOMAIN d : d[key].shape = shape
           /\ \A idx \in Indices(shape) :
                /\ d.sky.data[idx] = g * Draw(e.N_sky, 0, idx)
                /\ d.dark.data[idx] = g * Draw(e.N_dark, 1, idx)
                /\ d.cryo.data[idx] = g * Draw(e.N_cryo, 2, idx)
                /\ d.RN.data[idx] = Draw(e.N_RN, 3, idx)
                /\ d.gain_multiplied.data[idx] =
                      d.sky.data[idx] + d.cryo.data[idx] + d.dark.data[idx]
                /\ d.post_gain.data[idx] = d.RN.data[idx]
                /\ d.unity_gain.data[idx] * g = d.gain_multiplied.data[idx]
                /\ d.total.data[idx] =
                      d.sky.data[idx] + d.dark.data[idx] + d.cryo.data[idx]
                        + d.RN.data[idx]
                /\ d.total.data[idx] =
                      d.gain_multiplied.data[idx] + d.post_gain.data[idx]

C6_Witness ==
    /\ nf_out.status = "ok"
    /\ nf_out.gain = 3
    /\ nf_out.N >= 2
    /\ \E idx \in DOMAIN nf_out.noise_frames_dict.RN.data :
          /\ nf_out.noise_frames_dict.RN.data[idx] % 3 # 0
          /\ nf_out.noise_frames_dict.sky.data[idx] > 0
          /\ nf_out.noise_frames_dict.dark.data[idx] > 0

\* the entries of a noise_frames_dict
FrameEntries(d) ==
    {d.sky, d.dark, d.cryo, d.RN, d.total, d.gain_multiplied, d.unity_gain,
     d.post_gain}

\* C17: for every N >= 1, N = 1 included, each entry of the frame set is a
\* stack of shape (N, height, width).
C17_StackOfNFrames ==
    nf_out.status = "ok" =>
        \A a \in FrameEntries(nf_out.noise_frames_dict) :
            a.shape = <<nf_out.N, nf_out.height_px, nf_out.width_px>>

\* the last noise_frames_from_etc call had no ETC input and not both a
\* numeric t_exp and a band
NoEtcNoExposure ==
    /\ nf_out.status # "none"
    /\ nf_out.etc_input.kind = "None"
    /\ ~(nf_out.t_exp # "None" /\ nf_out.band # "None")

\* C21: a noise_frames_from_etc call without an ETC input and without both a
\* numeric t_exp and a band raises an exception before noise_frames is called:
\* the random source is where it was before the call, no stream position was
\* drawn by the call, and neither a frame dictionary nor an ETC output is
\* returned.
C21_ErrorBeforeAnyDraw ==
    NoEtcNoExposure =>
        /\ nf_out.status \in {"UserWarning", "NameError"}
        /\ rng.pos = nf_out.pos0
        /\ \A p \in draws.science \cup draws.master : p < nf_out.pos0
        /\ nf_out.noise_frames_dict = EmptyDict
        /\ nf_out.etc_output = NoneEtc

\* the failing call follows a call that drew frames, with an optical system
\* in scope, so that the exception is the one of the t_exp and band test
C21_Witness ==
    /\ NoEtcNoExposure
    /\ cfg.optical_system = "set"
    /\ nf_out.status = "UserWarning"
    /\ nf_out.band = "K"
    /\ rng.pos > 0

\* C22: dark_sky_master_frames hands no gain on, so whatever gain the
\* science frames of the same ETC output were made with, the frames behind
\* the master frames are the unity-gain draws (sky, dark and cryo are not
\* multiplied, 'unity gain' = 'gain-multiplied'), the master frames are the
\* medians of these frames, and none of the individual frames is among the
\* two arrays returned.
C22_MastersFromUnityGainFrames ==
    master_out.status = "ok" =>
        LET d == master_out.local_frames
            e == master_out.etc_output
            shape == d.sky.shape
            n == Size(shape)
            Draw(lam, k, idx) ==
                Poisson(lam, Stream(rng.seed, master_out.pos0 + k * n + Flat(shape, idx)))
        IN /\ \A idx \in Indices(shape) :
                /\ d.sky.data[idx] = Draw(e.N_sky, 0, idx)
                /\ d.dark.data[idx] = Draw(e.N_dark, 1, idx)
                /\ d.cryo.data[idx] = Draw(e.N_cryo, 2, idx)
                /\ d.RN.data[idx] = Draw(e.N_RN, 3, idx)
                /\ d.total.data[idx] =
                      d.sky.data[idx] + d.dark.data[idx] + d.cryo.data[idx]
                        + d.RN.data[idx]
           /\ d.unity_gain = d.gain_multiplied
           /\ master_out.master_dark_and_sky = median_combine(d.total)
           /\ master_out.master_dark = median_combine(ArrSub(d.total, d.sky))
           /\ master_out.master_dark_and_sky \notin FrameEntries(d)
           /\ master_out.master_dark \notin FrameEntries(d)

\* master frames made right after science frames of gain 3 from the same ETC
\* output, with a sky count that a gain would have changed
C22_Witness ==
    /\ master_out.status = "ok"
    /\ master_out.science_gain = 3
    /\ master_out.N >= 2
    /\ \E idx \in DOMAIN master_out.local_frames.sky.data :
          master_out.local_frames.sky.data[idx] > 0

(***************************************************************************)
(* Claims about add_tt (checked under SpecTT)                              *)
(***************************************************************************)

\* how many of sigma_tt_px and tt_idxs the last add_tt call was given
JitterArgsGiven ==
    (IF tt_out.sigma_tt_px.kind # "None" THEN 1 ELSE 0)
        + (IF tt_out.tt_idxs_arg.kind # "None" THEN 1 ELSE 0)

\* C7: add_tt succeeds only with exactly one of sigmaPx and explicitShiftPx;
\* with neither or both it fails, returns no shifted image and consumes no
\* random draw.
C7_ExactlyOneOrFail ==
    tt_out.status # "none" =>
        /\ tt_out.status = "ok" => JitterArgsGiven = 1
        /\ JitterArgsGiven # 1 =>
              /\ tt_out.status = "UserWarning"
              /\ tt_out.image_tt = EmptyArray
              /\ rng.pos = tt_out.pos0

(***************************************************************************)
(* Claims about get_diffraction_limited_image (checked under SpecDL)       *)
(***************************************************************************)

\* C8: with an input focal ratio and wavelength and FWHM_out <= FWHM_in the
\* call fails, with no PSF and no image, and never goes on with a NaN, zero
\* or infinite derived focal ratio.
C8_NotSharperFails ==
    (dl_out.status # "none" /\ dl_out.composed /\ dl_out.FWHM_out <= dl_out.FWHM_in) =>
        /\ dl_out.status = "error"
        /\ ~dl_out.psf_computed
        /\ ~dl_out.image_returned

(***************************************************************************)
(* Claims about airy_disc (checked under SpecAiry)                         *)
(***************************************************************************)

\* C13: for every P_0 > 0 the pixels of the returned kernel sum to P_0.
C13_KernelSumsToTotalEnergy ==
    (airy_out.status = "ok" /\ airy_out.count_cumtrapz.cls = "finite"
        /\ airy_out.count_cumtrapz.den > 0) =>
        SumOver(airy_out.count_cumtrapz.data, DOMAIN airy_out.count_cumtrapz.data)
            = airy_out.P_0 * airy_out.count_cumtrapz.den

\* the doubled samples of the last call's grid along an axis
GridAxis2(axis) ==
    AxisSamples2(airy_out.detector_size_px[axis] * airy_out.trapz_oversampling,
                 airy_out.trapz_oversampling, airy_out.coords, axis)

\* twice the index where the claim puts the zero sample of an axis
CentreIndex2(axis) ==
    IF airy_out.coords.kind = "None"
    THEN airy_out.detector_size_px[axis] * airy_out.trapz_oversampling
    ELSE 2 * airy_out.coords.v[axis] * airy_out.trapz_oversampling

\* C18: the grid sample with x = 0 (y = 0) sits at the midpoint of the
\* index range 0 .. H*T (0 .. W*T) when no coords are given, for H*T even
\* and odd, and at index coords * T when coords are given.
C18_GridCentred ==
    airy_out.status = "ok" =>
        \A axis \in {1, 2} :
            \E i \in DOMAIN GridAxis2(axis) :
                GridAxis2(axis)[i] = 0 /\ 2 * i = CentreIndex2(axis)

\* the grid samples of the last call with r = 0
ZeroRadius ==
    { idx \in DOMAIN airy_out.I.data :
        GridAxis2(1)[idx[1]] = 0 /\ GridAxis2(2)[idx[2]] = 0 }

\* the intensity map of the last call as computed, before the NaN is removed
RawIntensity ==
    AiryIntensity(GridAxis2(1), GridAxis2(2), airy_out.wavelength_m,
                  airy_out.f_ratio, airy_out.l_px_m,
                  airy_out.trapz_oversampling, airy_out.P_0)

\* C19: the returned intensity map holds no NaN; at most one sample has
\* r = 0, it is the sample at the centre of the disc and holds I_0; every
\* other sample keeps its computed value.
C19_NoNanAfterFix ==
    airy_out.status = "ok" =>
        /\ \A idx \in DOMAIN airy_out.I.data : airy_out.I.data[idx].cls = "finite"
        /\ Cardinality(ZeroRadius) <= 1
        /\ \A idx \in DOMAIN airy_out.I.data :
              IF idx \in ZeroRadius
              THEN airy_out.I.data[idx].v = airy_out.I_0
              ELSE airy_out.I.data[idx] = RawIntensity[idx]

\* a map whose r = 0 sample exists, off the diagonal, and holds I_0
C19_Witness ==
    /\ airy_out.status = "ok"
    /\ \E idx \in ZeroRadius :
          /\ idx[1] # idx[2]
          /\ RawIntensity[idx].cls = "nan"
          /\ airy_out.I.data[idx] = [cls |-> "finite", v |-> airy_out.I_0]

(***************************************************************************)
(* Claims about psf_airy_disk_kernel (checked under SpecPSF)               *)
(***************************************************************************)

\* how many of f_ratio, l_px_m and N_OS the call was given
PlateScaleArgsGiven ==
    (IF psf_out.f_ratio.kind # "None" THEN 1 ELSE 0)
        + (IF psf_out.l_px_m.kind # "None" THEN 1 ELSE 0)
        + (IF psf_out.N_OS.kind # "None" THEN 1 ELSE 0)

\* C11: with none or all three of f_ratio, l_px_m and N_OS the call is
\* rejected as a contract violation: it neither returns a kernel from the
\* three values given nor ends in an unrelated arithmetic error.
C11_ZeroOrThreeRejected ==
    (psf_out.status # "none" /\ PlateScaleArgsGiven \in {0, 3}) =>
        psf_out.status = "ContractViolation"

\* C12: with exactly two of the three given, the call runs to its return
\* and never waits for input.
C12_TwoOfThreeNeverBlocks ==
    (psf_out.status # "none" /\ PlateScaleArgsGiven = 2) =>
        /\ psf_out.status = "ok"
        /\ ~psf_out.blocked

(***************************************************************************)
(* Claims about convolve_psf (checked under SpecConv)                      *)
(***************************************************************************)

\* the pad margin the claim gives an axis of the last call's image
ClaimedPad(axis) == (conv_out.image.shape[axis] \div conv_out.padFactor) \div 2

\* the length the claim gives an axis of the padded image
ClaimedPaddedDim(axis) ==
    2 * ClaimedPad(axis) + conv_out.image.shape[axis]
        + (conv_out.image.shape[axis] % 2)

\* C14: the image is padded by pad = dim // padFactor // 2 rows (columns)
\* before and pad + dim % 2 after, the padded image has the even dimensions
\* 2*pad + dim + dim % 2, and the result has the shape of the image and is
\* rows pad_ud .. pad_ud+h-1, columns pad_lr .. pad_lr+w-1 of the convolved
\* padded image.
C14_PadAndCrop ==
    conv_out.status = "ok" =>
        /\ conv_out.image_padded.shape = <<ClaimedPaddedDim(1), ClaimedPaddedDim(2)>>
        /\ ClaimedPaddedDim(1) % 2 = 0 /\ ClaimedPaddedDim(2) % 2 = 0
        /\ \A idx \in DOMAIN conv_out.image_padded.data :
              conv_out.image_padded.data[idx] =
                  IF <<idx[1] - ClaimedPad(1), idx[2] - ClaimedPad(2)>>
                        \in DOMAIN conv_out.image.data
                  THEN conv_out.image.data[<<idx[1] - ClaimedPad(1),
                                             idx[2] - ClaimedPad(2)>>]
                  ELSE 0
        /\ conv_out.image_conv.shape = conv_out.image_padded.shape
        /\ conv_out.image_conv_cropped.shape = conv_out.image.shape
        /\ DOMAIN conv_out.image_conv_cropped.data = DOMAIN conv_out.image.data
        /\ \A idx \in DOMAIN conv_out.image_conv_cropped.data :
              conv_out.image_conv_cropped.data[idx] =
                  conv_out.image_conv.data[<<ClaimedPad(1) + idx[1],
                                             ClaimedPad(2) + idx[2]>>]

\* an image of even height and odd width, padded on every side, with a
\* kernel of more than one pixel
C14_Witness ==
    /\ conv_out.status = "ok"
    /\ conv_out.image.shape[1] % 2 = 0 /\ conv_out.image.shape[2] % 2 = 1
    /\ ClaimedPad(1) > 0 /\ ClaimedPad(2) > 0
    /\ conv_out.psf.shape = <<3, 3>>
    /\ \E idx \in DOMAIN conv_out.image_conv_cropped.data :
          conv_out.image_conv_cropped.data[idx] > 0

\* the sum of the elements of an array
ArraySum(array) == SumOver(array.data, DOMAIN array.data)

\* no non-zero pixel of the image is carried outside the image's footprint
\* by a non-zero element of the kernel (placed about its element (k-1)//2)
NoSpill ==
    \A ij \in DOMAIN conv_out.image.data, ab \in DOMAIN conv_out.psf.data :
        (conv_out.image.data[ij] # 0 /\ conv_out.psf.data[ab] # 0) =>
            <<ij[1] + ab[1] - ((conv_out.psf.shape[1] - 1) \div 2),
              ij[2] + ab[2] - ((conv_out.psf.shape[2] - 1) \div 2)>>
                \in DOMAIN conv_out.image.data

\* C15, as stated: for a kernel that fits inside the padded image the sum
\* of the cropped output is sum(image) * sum(kernel).
C15_FluxPreserved ==
    (/\ conv_out.status = "ok"
     /\ conv_out.psf.shape[1] <= conv_out.image_padded.shape[1]
     /\ conv_out.psf.shape[2] <= conv_out.image_padded.shape[2]) =>
        ArraySum(conv_out.image_conv_cropped)
            = ArraySum(conv_out.image) * ArraySum(conv_out.psf)

\* C15, amended: for a non-negative image and kernel the sum of the cropped
\* output is at most sum(image) * sum(kernel), and equal to it when the
\* kernel carries no flux of the image outside the image's footprint.
C15_FluxWithinFootprint ==
    conv_out.status = "ok" =>
        /\ ArraySum(conv_out.image_conv_cropped)
              <= ArraySum(conv_out.image) * ArraySum(conv_out.psf)
        /\ NoSpill =>
              ArraySum(conv_out.image_conv_cropped)
                  = ArraySum(conv_out.image) * ArraySum(conv_out.psf)

\* a source away from the edges, spread by a 3 x 3 kernel inside the footprint
C15_Witness ==
    /\ conv_out.status = "ok"
    /\ NoSpill
    /\ ArraySum(conv_out.image) > 0
    /\ ArraySum(conv_out.psf) > 1
    /\ \E ab \in DOMAIN conv_out.psf.data : ab # <<1, 1>> /\ conv_out.psf.data[ab] # 0
    /\ ClaimedPad(1) > 0

(***************************************************************************)
(* Claims about field_star (checked under SpecStar)                        *)
(***************************************************************************)

\* the star's offset in pixels along an axis, for the last call
OffsetPx(axis) ==
    IntQuotient(star_out.star_coords_as[axis], star_out.plate_scale_as_px)

\* the pad margin of an axis
Margin(axis) == (star_out.final_sz[axis] - star_out.psf.shape[axis]) \div 2

\* C16: for a PSF no larger than final_sz and an offset within the pad
\* margin, the result has exactly the shape final_sz, whether final_sz minus
\* the PSF size is even or odd, and holds the scaled PSF displaced from the
\* centred position by the offset in pixels.
C16_StarOnCanvas ==
    (/\ star_out.status # "none"
     /\ \A axis \in {1, 2} :
           /\ star_out.psf.shape[axis] <= star_out.final_sz[axis]
           /\ OffsetPx(axis) <= Margin(axis)
           /\ -OffsetPx(axis) <= Margin(axis)) =>
        /\ star_out.status = "ok"
        /\ star_out.star_padded.shape = star_out.final_sz
        /\ \A idx \in DOMAIN star_out.psf.data :
              star_out.star_padded.data[<<Margin(1) + OffsetPx(1) + idx[1],
                                          Margin(2) + OffsetPx(2) + idx[2]>>]
                  = star_out.psf.data[idx] * star_out.count_rate

====
